---- MODULE Spec2Model ----
(***************************************************************************)
(* Copy-trading bot: the risk manager (performFullRiskCheck and its        *)
(* checks), the trade executor (readTempTrade / doTrading), and the two    *)
(* activity pollers (the 200 ms realtime monitor and the interval trade    *)
(* monitor with its position watcher).                                     *)
(*                                                                         *)
(* Units.  USDC amounts are integers in 1/10000 USDC, so that the percent  *)
(* products of the code are exact and toFixed(2) is a real rounding.       *)
(* Prices are integers in 1/1000.  Date.now() is in milliseconds, the      *)
(* activity API's timestamps are in seconds; one step of the model clock   *)
(* is one minute.                                                          *)
(***************************************************************************)
EXTENDS Integers, Sequences, FiniteSets, TLC

VARIABLES
    now,              \* the wall clock, in model ticks (minutes)
    config,           \* RiskManager.config
    tradeStats,       \* tradeStats: dailyPnL, lastTradeTime
    tradeTimestamps,  \* tradeTimestamps
    riskPc,           \* performFullRiskCheck: "idle", "check", "adjust", "done"
    riskIdx,          \* performFullRiskCheck: the index of the next entry of checks
    riskIn,           \* performFullRiskCheck: its arguments
    riskRan,          \* the checks that ran, in order (observation)
    riskQueries,      \* the balance / positions queries issued, in order (observation)
    riskResult,       \* the RiskCheckResult returned
    riskPass,         \* 1: the evaluation of the input, 2: the evaluation of its adjustedAmount
    riskFirst,        \* the result of pass 1 while pass 2 runs
    riskConfig,       \* the configuration that was active when the evaluation was called (observation)
    store,            \* the UserActivity collection, in insertion order; a document's _id is its index
    isMonitoring,     \* realtimeMonitor: isMonitoring
    lastTradeTimestamp, \* realtimeMonitor: lastTradeTimestamp (seconds)
    botStartTime,     \* realtimeMonitor: botStartTime (seconds)
    tradeCallback,    \* realtimeMonitor: tradeCallback is set
    pollPc,           \* checkForNewTrades, for each chain of polls: "off", "timer", "fetching", "saving"
    newTrades,        \* checkForNewTrades, for each chain of polls: the trades of newTrades not yet saved
    calls,            \* the calls of startRealtimeMonitoring and stopRealtimeMonitoring, in order (observation)
    pollCycle,        \* the number of poll cycles that accepted trades (observation)
    dispatched,       \* the callback invocations, in order (observation)
    temp_trades,      \* tradeExecutor: temp_trades, the documents as read
    execPc,           \* doTrading: "read", "loop", "skip", "place", "mark", "catch", "dead"
    execIdx,          \* doTrading: the index of the current trade in temp_trades
    copyCheck,        \* doTrading: copyCheck and condition of the current trade
    evals,            \* the _ids evaluated by canCopyTrade, in order (observation)
    orders,           \* the orders postOrder completed, in order (observation)
    throws,           \* the _ids whose processing threw, in order (observation)
    caught,           \* doTrading: the call whose exception the catch block handles (observation)
    rejections,       \* the evaluations that rejected: index in evals, orders placed for the _id until then (observation)
    variant,          \* the monitor the process runs: "fast" (realtimeMonitor) or "slow" (tradeMonitor)
    lastFetchedTimestamp, \* tradeMonitor: lastFetchedTimestamp (milliseconds)
    isFirstRun,       \* tradeMonitor: isFirstRun
    slowPc,           \* tradeMonitor: "off", "fetch", "process", "positions", "sleep"
    activities,       \* processNewTrades: the activities not yet looked at
    tooOldThreshold,  \* processNewTrades: tooOldThreshold (milliseconds)
    sleptAt,          \* tradeMonitor: Date.now() when the sleep of the loop began
    myPositions,      \* the positions of the executing account, as the positions query returns them
    startedAt,        \* tradeMonitor: Date.now() in seconds when it was called (observation)
    cycle,            \* processNewTrades: the batch, the watermark and the stored keys when the cycle began (observation)
    resetDueAt,       \* tradeMonitor: the time the pending daily-reset timer fires (milliseconds), 0 when none is pending
    timeIn,           \* checkMarketTimeRemaining called on its own: its arguments
    timeOut           \* checkMarketTimeRemaining called on its own: what the parser and the check returned

riskVars == <<riskPc, riskIdx, riskIn, riskRan, riskQueries, riskResult, riskPass, riskFirst, riskConfig>>
managerVars == <<config, tradeStats, tradeTimestamps>>
monitorVars == <<isMonitoring, lastTradeTimestamp, botStartTime, tradeCallback, pollPc, newTrades, calls, pollCycle, dispatched>>
slowVars == <<variant, lastFetchedTimestamp, isFirstRun, slowPc, activities, tooOldThreshold, sleptAt, myPositions, resetDueAt, cycle, startedAt>>
executorVars == <<temp_trades, execPc, execIdx, copyCheck, evals, orders, throws, caught, rejections>>
timeVars == <<timeIn, timeOut>>

----------------------------------------------------------------------------
(* Bounds of the model *)

MaxDays == 1

\* the most calls of startRealtimeMonitoring and stopRealtimeMonitoring
MaxCalls == 3

\* the most chains of polls that exist at once in the model
MaxChains == 2
MaxTime == 2

\* the most activities one activity query returns in the model (the code asks for 20)
MaxBatch == 2

\* the most exceptions doTrading catches in one run of the model
MaxFaults == 2

\* the most sell activities the position check saves in one run of the model
MaxSells == 2

----------------------------------------------------------------------------
(* Time *)

\* Math.floor(Date.now() / 1000) at model tick t: the process runs from 01:00 UTC
NowSec(t) == 3600 + 60 * t

\* Date.now() at model tick t
DateNow(t) == 1000 * NowSec(t)

\* new Date().setHours(0, 0, 0, 0): local midnight (the local zone is UTC)
StartOfDay(ms) == ms - (ms % 86400000)

Min(a, b) == IF a <= b THEN a ELSE b

Max(a, b) == IF a >= b THEN a ELSE b

Abs(a) == IF a >= 0 THEN a ELSE 0 - a

\* parseFloat(x.toFixed(2)): the nearest cent, halves away from zero
ToFixed2(x) == IF x >= 0 THEN ((x + 50) \div 100) * 100 ELSE 0 - (((0 - x) + 50) \div 100) * 100

----------------------------------------------------------------------------
(* RiskConfig *)

\* src/config/riskConfig.ts DEFAULT_RISK_CONFIG
DEFAULT_RISK_CONFIG ==
    [maxPositionSizeUSDC |-> 15000, maxTotalExposureUSDC |-> 100000,
     minTradeAmountUSDC |-> 5000, maxDailyLossUSDC |-> 50000,
     maxSlippagePercent |-> 50, minTimeBetweenTradesMs |-> 500,
     maxTradesPerHour |-> 100, maxTradesPerDay |-> 500,
     minBalanceToKeepUSDC |-> 5000, maxBalanceUsagePercent |-> 95,
     copyRatioPercent |-> 100, skipIfPriceChangedPercent |-> 95,
     stopLossPercent |-> 40, takeProfitPercent |-> 30]

\* the conservative preset
CONSERVATIVE_RISK_CONFIG ==
    [maxPositionSizeUSDC |-> 1000000, maxTotalExposureUSDC |-> 5000000,
     minTradeAmountUSDC |-> 10000, maxDailyLossUSDC |-> 500000,
     maxSlippagePercent |-> 2, minTimeBetweenTradesMs |-> 5000,
     maxTradesPerHour |-> 20, maxTradesPerDay |-> 100,
     minBalanceToKeepUSDC |-> 100000, maxBalanceUsagePercent |-> 80,
     copyRatioPercent |-> 100, skipIfPriceChangedPercent |-> 10,
     stopLossPercent |-> 20, takeProfitPercent |-> 50]

\* the preset tuned for a balance of 30 USDC
BALANCED_RISK_CONFIG ==
    [maxPositionSizeUSDC |-> 100000, maxTotalExposureUSDC |-> 250000,
     minTradeAmountUSDC |-> 1000, maxDailyLossUSDC |-> 60000,
     maxSlippagePercent |-> 5, minTimeBetweenTradesMs |-> 3000,
     maxTradesPerHour |-> 15, maxTradesPerDay |-> 50,
     minBalanceToKeepUSDC |-> 30000, maxBalanceUsagePercent |-> 90,
     copyRatioPercent |-> 100, skipIfPriceChangedPercent |-> 15,
     stopLossPercent |-> 25, takeProfitPercent |-> 40]

\* updateConfig(newConfig): { ...this.config, ...newConfig }
updateConfig(cfg, newConfig) == [k \in DOMAIN cfg |-> IF k \in DOMAIN newConfig THEN newConfig[k] ELSE cfg[k]]

----------------------------------------------------------------------------
(* RiskManager: the checks.  A RiskCheckResult is a record; check names the  *)
(* function that produced it, reason stands for the reason string (which     *)
(* branch wrote it), hasAmount tells whether adjustedAmount is set.          *)

Allowed(c) == [check |-> c, allowed |-> TRUE, hasAmount |-> FALSE, adjustedAmount |-> 0, reason |-> "none"]

AllowedWith(c, amt, why) == [check |-> c, allowed |-> TRUE, hasAmount |-> TRUE, adjustedAmount |-> amt, reason |-> why]

Rejected(c, why) == [check |-> c, allowed |-> FALSE, hasAmount |-> FALSE, adjustedAmount |-> 0, reason |-> why]

\* a title without the "H:MMAM-H:MMPM ET" pattern
NoTimeTitle == [matches |-> FALSE, endHour |-> 0, endMin |-> 0, endAmPm |-> "AM"]

\* a title whose pattern matched, with the end-time groups of the match
TimeTitle(h, m, ap) == [matches |-> TRUE, endHour |-> h, endMin |-> m, endAmPm |-> ap]

\* parseMarketEndTime: null (found = FALSE) or the minutes remaining
parseMarketEndTime(title, t) ==
    IF ~title.matches THEN [found |-> FALSE, minutesRemaining |-> 0]
    ELSE LET endHour24 == IF title.endAmPm = "PM" /\ title.endHour # 12 THEN title.endHour + 12
                          ELSE IF title.endAmPm = "AM" /\ title.endHour = 12 THEN 0
                          ELSE title.endHour
             utcHours == (NowSec(t) \div 3600) % 24
             utcMinutes == (NowSec(t) \div 60) % 60
             etHours == (utcHours - 5 + 24) % 24
             currentMinutesET == etHours * 60 + utcMinutes
             endMinutesET == endHour24 * 60 + title.endMin
             naive == endMinutesET - currentMinutesET
         IN [found |-> TRUE, minutesRemaining |-> IF naive < -60 THEN naive + 24 * 60 ELSE naive]

\* checkMarketTimeRemaining(title, minMinutes), minMinutes given in half minutes
checkMarketTimeRemaining(title, minHalfMinutes, t) ==
    LET timeInfo == parseMarketEndTime(title, t)
    IN IF ~timeInfo.found THEN Allowed("checkMarketTimeRemaining")
       ELSE IF 2 * timeInfo.minutesRemaining < minHalfMinutes
            THEN Rejected("checkMarketTimeRemaining", "marketEnds")
            ELSE Allowed("checkMarketTimeRemaining")

\* checkMarketResolved: price >= 0.999 or <= 0.001
checkMarketResolved(currentPrice) ==
    IF currentPrice >= 999 \/ currentPrice <= 1
    THEN Rejected("checkMarketResolved", "resolved")
    ELSE Allowed("checkMarketResolved")

checkMinTradeAmount(cfg, amount) ==
    IF amount < cfg.minTradeAmountUSDC
    THEN Rejected("checkMinTradeAmount", "belowMinimum")
    ELSE Allowed("checkMinTradeAmount")

checkMaxPositionSize(cfg, amount) ==
    IF amount > cfg.maxPositionSizeUSDC
    THEN AllowedWith("checkMaxPositionSize", cfg.maxPositionSizeUSDC, "capped")
    ELSE AllowedWith("checkMaxPositionSize", amount, "none")

checkDailyLossLimit(cfg, stats) ==
    IF stats.dailyPnL <= 0 - cfg.maxDailyLossUSDC
    THEN Rejected("checkDailyLossLimit", "dailyLoss")
    ELSE Allowed("checkDailyLossLimit")

\* the number of recorded trades later than ms
TradesAfter(tts, ms) == Cardinality({i \in DOMAIN tts : tts[i] > ms})

\* a frequency check that limits nothing
checkTradeFrequencyOff(cfg, stats, tts, t) == Allowed("checkTradeFrequency")

checkTradeFrequency(cfg, stats, tts, t) ==
    LET ms == DateNow(t)
    IN IF ms - stats.lastTradeTime < cfg.minTimeBetweenTradesMs
       THEN Rejected("checkTradeFrequency", "tooSoon")
       ELSE IF TradesAfter(tts, ms - 3600000) >= cfg.maxTradesPerHour
       THEN Rejected("checkTradeFrequency", "hourlyLimit")
       ELSE IF TradesAfter(tts, StartOfDay(ms)) >= cfg.maxTradesPerDay
       THEN Rejected("checkTradeFrequency", "dailyLimit")
       ELSE Allowed("checkTradeFrequency")

\* a slippage check on the signed price difference
checkSlippageSigned(cfg, currentPrice, originalPrice) ==
    IF (currentPrice - originalPrice) * 100 > cfg.maxSlippagePercent * 1000
    THEN Rejected("checkSlippage", "slippage")
    ELSE Allowed("checkSlippage")

\* Math.abs(currentPrice - originalPrice) * 100 > maxSlippagePercent, prices in 1/1000
checkSlippage(cfg, currentPrice, originalPrice) ==
    IF Abs(currentPrice - originalPrice) * 100 > cfg.maxSlippagePercent * 1000
    THEN Rejected("checkSlippage", "slippage")
    ELSE Allowed("checkSlippage")

checkPriceDifference(cfg, currentPrice, originalPrice) ==
    IF Abs(currentPrice - originalPrice) * 100 > cfg.skipIfPriceChangedPercent * 1000
    THEN Rejected("checkPriceDifference", "priceChanged")
    ELSE Allowed("checkPriceDifference")

\* the outcome of a query: it threw (ok = FALSE) or returned value
QueryFailed == [ok |-> FALSE, value |-> 0]

QueryOk(v) == [ok |-> TRUE, value |-> v]

\* checkBalanceProtection, given the outcome of getMyBalance (unused for SELL)
checkBalanceProtection(cfg, amount, side, bal) ==
    IF side = "SELL" THEN Allowed("checkBalanceProtection")
    ELSE IF ~bal.ok THEN Rejected("checkBalanceProtection", "balanceCheckFailed")
    ELSE LET balance == bal.value
             availableBalance == balance - cfg.minBalanceToKeepUSDC
             maxUsable == (balance * cfg.maxBalanceUsagePercent) \div 100
         IN IF availableBalance <= 0 THEN Rejected("checkBalanceProtection", "insufficientBalance")
            ELSE IF amount > maxUsable
            THEN AllowedWith("checkBalanceProtection", Min(maxUsable, availableBalance), "usageCap")
            ELSE IF amount > availableBalance
            THEN AllowedWith("checkBalanceProtection", availableBalance, "availableCap")
            ELSE Allowed("checkBalanceProtection")

\* checkTotalExposure, given the outcome of the positions query: the sum of currentValue
checkTotalExposure(cfg, amount, side, pos) ==
    IF side = "SELL" THEN Allowed("checkTotalExposure")
    ELSE IF ~pos.ok THEN Allowed("checkTotalExposure")
    ELSE LET totalExposure == pos.value
             maxAllowed == Max(0, cfg.maxTotalExposureUSDC - totalExposure)
         IN IF totalExposure + amount > cfg.maxTotalExposureUSDC
            THEN IF maxAllowed <= cfg.minTradeAmountUSDC
                 THEN Rejected("checkTotalExposure", "exposureLimit")
                 ELSE AllowedWith("checkTotalExposure", maxAllowed, "exposureCap")
            ELSE Allowed("checkTotalExposure")

\* adjustTradeAmount, given the outcome of its own getMyBalance (unused for SELL)
adjustTradeAmount(cfg, amount, side, bal) ==
    LET scaled == (amount * cfg.copyRatioPercent) \div 100
        capped == Min(scaled, cfg.maxPositionSizeUSDC)
        availableBalance == bal.value - cfg.minBalanceToKeepUSDC
        maxUsable == (bal.value * cfg.maxBalanceUsagePercent) \div 100
        clamped == Min(capped, Min(availableBalance, maxUsable))
    IN IF scaled < cfg.minTradeAmountUSDC THEN Rejected("adjustTradeAmount", "belowMinimumAfterRatio")
       ELSE IF side = "BUY" /\ bal.ok
       THEN IF clamped < cfg.minTradeAmountUSDC
            THEN Rejected("adjustTradeAmount", "insufficientFunds")
            ELSE AllowedWith("adjustTradeAmount", ToFixed2(clamped), "none")
       ELSE AllowedWith("adjustTradeAmount", ToFixed2(capped), "none")

\* the number of entries of the checks array of performFullRiskCheck
NumChecks == 10

\* checks[i](): the i-th entry of the checks array; q is the outcome of the
\* query that entry issues (entries 9 and 10)
RunCheck(i, in, cfg, stats, tts, t, q) ==
    CASE i = 1 -> checkMarketResolved(in.currentPrice)
      [] i = 2 -> IF in.title.matches THEN checkMarketTimeRemaining(in.title, 1, t)
                  ELSE Allowed("checkMarketTimeRemaining")
      [] i = 3 -> checkMinTradeAmount(cfg, in.amount)
      [] i = 4 -> checkMaxPositionSize(cfg, in.amount)
      [] i = 5 -> checkDailyLossLimit(cfg, stats)
      [] i = 6 -> checkTradeFrequency(cfg, stats, tts, t)
      [] i = 7 -> checkSlippage(cfg, in.currentPrice, in.originalPrice)
      [] i = 8 -> checkPriceDifference(cfg, in.currentPrice, in.originalPrice)
      [] i = 9 -> checkBalanceProtection(cfg, in.amount, in.side, q)
      [] OTHER -> checkTotalExposure(cfg, in.amount, in.side, q)

\* the query a check issues: "balance", "positions" or "none"
QueryOf(i, side) ==
    IF side = "BUY" /\ i = 9 THEN "balance"
    ELSE IF side = "BUY" /\ i = 10 THEN "positions"
    ELSE "none"

\* a loop that does not return on a failed check
AfterCheckNoReturn(i, result) ==
    IF i < NumChecks THEN "check" ELSE "adjust"

\* the loop of performFullRiskCheck after check i returned result: where it goes
AfterCheck(i, result) ==
    IF ~result.allowed THEN "done"
    ELSE IF i < NumChecks THEN "check"
    ELSE "adjust"

----------------------------------------------------------------------------
(* performFullRiskCheck as a process: one step per awaited check, one for   *)
(* the awaited adjustTradeAmount.  SpecRisk runs it on every input of the   *)
(* sets below, and then once more on the adjustedAmount it returned, with   *)
(* the balance and the positions unchanged.                                 *)

RiskConfigs ==
    {DEFAULT_RISK_CONFIG, CONSERVATIVE_RISK_CONFIG, BALANCED_RISK_CONFIG,
     updateConfig(BALANCED_RISK_CONFIG, [copyRatioPercent |-> 50]),
     updateConfig(DEFAULT_RISK_CONFIG, [maxPositionSizeUSDC |-> 3000])}

RiskSides == {"BUY", "SELL"}

\* 0.30, 8.00 and 50.00 USDC
RiskAmounts == {3000, 80000, 500000}

\* the order book's price and the price of the observed trade
RiskCurrentPrices == {400, 500, 520, 600, 999}

RiskOriginalPrices == {500}

\* at tick 0 it is 8:00PM ET
RiskTitles == {NoTimeTitle, TimeTitle(8, 1, "PM")}

\* getMyBalance: throws, or 10.00, 10.126 or 100.00 USDC
BalanceOutcomes == {QueryFailed, QueryOk(100000), QueryOk(101260), QueryOk(1000000)}

\* the positions query: throws, or positions worth 0 or 480 USDC in total
ExposureOutcomes == {QueryFailed, QueryOk(0), QueryOk(4800000)}

\* tradeStats and tradeTimestamps: nothing recorded, a trade recorded this
\* instant, a daily loss of 50 USDC recorded earlier
RiskStats(t) ==
    {[stats |-> [dailyPnL |-> 0, lastTradeTime |-> 0], tts |-> <<>>],
     [stats |-> [dailyPnL |-> 0, lastTradeTime |-> DateNow(t)], tts |-> <<DateNow(t)>>],
     [stats |-> [dailyPnL |-> -500000, lastTradeTime |-> 0], tts |-> <<>>]}

NoInput == [side |-> "SELL", amount |-> 0, currentPrice |-> 0, originalPrice |-> 0, title |-> NoTimeTitle]

NoResult == Allowed("none")

\* the outcomes a query of the given kind can have in this pass
Outcomes(kind) ==
    IF kind = "none" THEN {QueryFailed}
    ELSE IF riskPass = 2 THEN {riskFirst.queries[i].outcome : i \in {j \in DOMAIN riskFirst.queries : riskFirst.queries[j].kind = kind}}
    ELSE IF kind = "balance" THEN BalanceOutcomes
    ELSE ExposureOutcomes

Logged(kind, q) == IF kind = "none" THEN riskQueries ELSE Append(riskQueries, [kind |-> kind, outcome |-> q])

\* performFullRiskCheck(side, amount, currentPrice, originalPrice, conditionId, title) is called
RiskCall ==
    /\ riskPc = "idle"
    /\ \E side \in RiskSides, amount \in RiskAmounts, cur \in RiskCurrentPrices,
          orig \in RiskOriginalPrices, title \in RiskTitles :
          riskIn' = [side |-> side, amount |-> amount, currentPrice |-> cur,
                     originalPrice |-> orig, title |-> title]
    /\ riskPc' = "check"
    /\ riskIdx' = 1
    /\ riskConfig' = config
    /\ UNCHANGED <<riskRan, riskQueries, riskResult, riskPass, riskFirst>>

\* const result = await check(); if (!result.allowed) return result
RiskCheckStep ==
    /\ riskPc = "check"
    /\ LET kind == QueryOf(riskIdx, riskIn.side)
       IN \E q \in Outcomes(kind) :
          LET result == RunCheck(riskIdx, riskIn, config, tradeStats, tradeTimestamps, now, q)
              next == AfterCheck(riskIdx, result)
          IN /\ riskRan' = Append(riskRan, result)
             /\ riskQueries' = Logged(kind, q)
             /\ riskPc' = next
             /\ riskIdx' = IF next = "check" THEN riskIdx + 1 ELSE riskIdx
             /\ riskResult' = IF next = "done" THEN result ELSE riskResult
    /\ UNCHANGED <<riskIn, riskPass, riskFirst, riskConfig>>

\* const adjustedResult = await this.adjustTradeAmount(amount, side); return adjustedResult
RiskAdjustStep ==
    /\ riskPc = "adjust"
    /\ LET kind == IF riskIn.side = "BUY" THEN "balance" ELSE "none"
       IN \E q \in Outcomes(kind) :
          /\ riskResult' = adjustTradeAmount(config, riskIn.amount, riskIn.side, q)
          /\ riskQueries' = Logged(kind, q)
    /\ riskPc' = "done"
    /\ UNCHANGED <<riskIn, riskIdx, riskRan, riskPass, riskFirst, riskConfig>>

\* every query of the evaluation returned, and the balance queries agree
StableQueries(qs) ==
    /\ \A i \in DOMAIN qs : qs[i].outcome.ok
    /\ \A i, j \in DOMAIN qs : qs[i].kind = qs[j].kind => qs[i].outcome = qs[j].outcome

\* the chain is applied again to the amount it returned
RiskReapply ==
    /\ riskPc = "done"
    /\ riskPass = 1
    /\ riskResult.allowed
    /\ StableQueries(riskQueries)
    /\ riskFirst' = [result |-> riskResult, queries |-> riskQueries]
    /\ riskIn' = [riskIn EXCEPT !.amount = riskResult.adjustedAmount]
    /\ riskPass' = 2
    /\ riskPc' = "check"
    /\ riskIdx' = 1
    /\ riskRan' = <<>>
    /\ riskQueries' = <<>>
    /\ riskConfig' = config
    /\ UNCHANGED riskResult

\* the partial configurations another task passes to updateConfig
PartialConfigs ==
    {[maxPositionSizeUSDC |-> 20000],
     [minBalanceToKeepUSDC |-> 50000, maxBalanceUsagePercent |-> 50],
     [maxTotalExposureUSDC |-> 50000]}

\* updateConfig(newConfig) runs while the evaluation is suspended at a balance or positions query
RiskUpdateConfig ==
    /\ \/ riskPc = "check" /\ QueryOf(riskIdx, riskIn.side) # "none"
       \/ riskPc = "adjust" /\ riskIn.side = "BUY"
    /\ \E newConfig \in PartialConfigs : config' = updateConfig(config, newConfig)
    /\ config' # config
    /\ UNCHANGED <<tradeStats, tradeTimestamps, riskVars>>

----------------------------------------------------------------------------
(* checkMarketTimeRemaining on its own: SpecClock calls it once, at a time  *)
(* of day of a winter and of a summer date, on the titles and minimums      *)
(* below.                                                                   *)

\* the model tick at which the UTC clock shows hour:minute, day days after 1970-01-01
TickAt(day, hour, minute) == (day * 86400 + hour * 3600 + minute * 60 - 3600) \div 60

\* 2026-01-10 and 2026-07-10, at 00:20, 04:50, 05:10, 16:00 and 23:20 UTC
ClockTicks ==
    {TickAt(day, hm[1], hm[2]) : day \in {20463, 20644}, hm \in {<<0, 20>>, <<4, 50>>, <<5, 10>>, <<16, 0>>, <<23, 20>>}}

\* titles ending at 12:10AM, 12:30PM, 7:25PM, 8:00PM and 11:45PM ET, and one without a time
ClockTitles ==
    {NoTimeTitle, TimeTitle(12, 10, "AM"), TimeTitle(12, 30, "PM"), TimeTitle(7, 25, "PM"), TimeTitle(8, 0, "PM"),
     TimeTitle(11, 45, "PM")}

\* minMinutes in half minutes: 0.5 (performFullRiskCheck), 10 (the default) and 50
ClockMinimums == {1, 20, 100}

NoTimeInput == [title |-> NoTimeTitle, minHalfMinutes |-> 0]

NoTimeOutput == [called |-> FALSE, timeInfo |-> [found |-> FALSE, minutesRemaining |-> 0], result |-> NoResult]

\* checkMarketTimeRemaining(title, minMinutes) is called and returns
TimeCheck ==
    /\ ~timeOut.called
    /\ \E title \in ClockTitles, minHalfMinutes \in ClockMinimums :
          /\ timeIn' = [title |-> title, minHalfMinutes |-> minHalfMinutes]
          /\ timeOut' = [called |-> TRUE,
                         timeInfo |-> parseMarketEndTime(title, now),
                         result |-> checkMarketTimeRemaining(title, minHalfMinutes, now)]

----------------------------------------------------------------------------
(* performFullRiskCheck as the executor calls it: the same loop, run to its *)
(* end in one step, given the outcomes of the three queries.                *)

RECURSIVE RunChecksFrom(_, _, _, _, _, _, _, _)
RunChecksFrom(i, in, cfg, stats, tts, t, bal, pos) ==
    LET result == RunCheck(i, in, cfg, stats, tts, t, IF i = 9 THEN bal ELSE pos)
    IN IF AfterCheck(i, result) = "check"
       THEN RunChecksFrom(i + 1, in, cfg, stats, tts, t, bal, pos)
       ELSE result

performFullRiskCheck(in, cfg, stats, tts, t, bal, pos, bal2) ==
    LET result == RunChecksFrom(1, in, cfg, stats, tts, t, bal, pos)
    IN IF ~result.allowed THEN result
       ELSE adjustTradeAmount(cfg, in.amount, in.side, bal2)

\* a recordTrade that books one unit of loss for every trade it records
recordTradeAtALoss(stats, pnl, t) == [dailyPnL |-> stats.dailyPnL + pnl - 1, lastTradeTime |-> DateNow(t)]

\* recordTrade(pnl): the statistics after it
recordTradeStats(stats, pnl, t) == [dailyPnL |-> stats.dailyPnL + pnl, lastTradeTime |-> DateNow(t)]

\* recordTrade: tradeTimestamps after the push and the shifts of entries older than a day
RECURSIVE DropOld(_, _)
DropOld(tts, oneDayAgo) ==
    IF Len(tts) > 0 /\ tts[1] < oneDayAgo THEN DropOld(Tail(tts), oneDayAgo) ELSE tts

\* a recordTrade that pushes the timestamp twice
recordTradeTwice(tts, t) == Append(Append(tts, DateNow(t)), DateNow(t))

recordTradeTimestamps(tts, t) == DropOld(Append(tts, DateNow(t)), DateNow(t) - 86400000)

----------------------------------------------------------------------------
(* The activity API and the persisted activity store *)

\* ENV.RETRY_LIMIT
RETRY_LIMIT == 2

\* the activity of the target account: what the activity query can return.
\* 0xh0 was traded at the instant of tick 0, the others one and two seconds later.
Activities ==
    {[transactionHash |-> <<"0xh0">>, type |-> "TRADE", timestamp |-> NowSec(0), side |-> "BUY",
      usdcSize |-> 80000, price |-> 500, title |-> NoTimeTitle],
     [transactionHash |-> <<"0xt1">>, type |-> "TRADE", timestamp |-> NowSec(0) + 1, side |-> "BUY",
      usdcSize |-> 80000, price |-> 500, title |-> NoTimeTitle],
     [transactionHash |-> <<"0xt2">>, type |-> "TRADE", timestamp |-> NowSec(0) + 2, side |-> "SELL",
      usdcSize |-> 80000, price |-> 500, title |-> NoTimeTitle],
     [transactionHash |-> <<"0xr1">>, type |-> "REDEEM", timestamp |-> NowSec(0) + 1, side |-> "SELL",
      usdcSize |-> 80000, price |-> 500, title |-> NoTimeTitle]}

\* the activities that exist at tick t
Visible(t) == {a \in Activities : a.timestamp <= NowSec(t)}

\* the sequences without repetition of at most n elements of S
RECURSIVE SeqsOf(_, _)
SeqsOf(S, n) ==
    IF n = 0 THEN {<<>>}
    ELSE {<<>>} \cup {<<x>> \o rest : x \in S, rest \in SeqsOf(S, n - 1)}

NoRepeat(q) == \A i, j \in DOMAIN q : i # j => q[i] # q[j]

\* what fetchData returns for the activity query at tick t: any selection, in any order
ActivityBatches(t) == {q \in SeqsOf(Visible(t), MaxBatch) : NoRepeat(q)}

\* new UserActivity({...trade, bot, botExcutedTime}): the stored document;
\* batch is the poll cycle that saved it (observation)
Document(a, bot, batch) ==
    [transactionHash |-> a.transactionHash, type |-> a.type, timestamp |-> a.timestamp,
     side |-> a.side, usdcSize |-> a.usdcSize, price |-> a.price, title |-> a.title,
     bot |-> bot, botExcutedTime |-> 0, batch |-> batch]

\* UserActivity.findOne({transactionHash}) finds a document
Exists(hash) == \E i \in DOMAIN store : store[i].transactionHash = hash

\* the stores a process can find at its start: empty, or a trade an earlier
\* run saved (one minute before tick 0) and did not execute
InitialStores ==
    {<<>>,
     <<[transactionHash |-> <<"0xold">>, type |-> "TRADE", timestamp |-> NowSec(0) - 60, side |-> "BUY",
        usdcSize |-> 80000, price |-> 500, title |-> NoTimeTitle,
        bot |-> FALSE, botExcutedTime |-> 0, batch |-> 0]>>}

----------------------------------------------------------------------------
(* realtimeMonitor: startRealtimeMonitoring and the loop of checkForNewTrades *)

\* newTrades.sort((a, b) => a.timestamp - b.timestamp): a stable insertion sort
RECURSIVE InsertByTimestamp(_, _)
InsertByTimestamp(a, sorted) ==
    IF sorted = <<>> THEN <<a>>
    ELSE IF sorted[1].timestamp <= a.timestamp THEN <<sorted[1]>> \o InsertByTimestamp(a, Tail(sorted))
    ELSE <<a>> \o sorted

RECURSIVE SortByTimestamp(_)
SortByTimestamp(q) ==
    IF q = <<>> THEN <<>>
    ELSE LET n == Len(q) IN InsertByTimestamp(q[n], SortByTimestamp(SubSeq(q, 1, n - 1)))

\* the order in which checkForNewTrades saves and dispatches newTrades
DispatchOrder(q) == SortByTimestamp(q)

\* a filter that does not look at the watermark
IsAfterStart(a, watermark, startTime) ==
    /\ a.type = "TRADE"
    /\ a.timestamp > startTime

\* activities.filter(type === 'TRADE' && timestamp > lastTradeTimestamp && timestamp > botStartTime)
IsNewTrade(a, watermark, startTime) ==
    /\ a.type = "TRADE"
    /\ a.timestamp > watermark
    /\ a.timestamp > startTime

FilterNew(q, watermark, startTime) == SelectSeq(q, LAMBDA a : IsNewTrade(a, watermark, startTime))

\* the chains of polls: each call of startMonitoringLoop starts one, which lasts
\* until a run of checkForNewTrades returns without setting its timer
Chains == 1..MaxChains

\* the chain a call of startMonitoringLoop starts
FreeChain == CHOOSE c \in Chains : pollPc[c] = "off" /\ \A d \in Chains : pollPc[d] = "off" => c <= d

\* startRealtimeMonitoring(callback): returns at once when isMonitoring, otherwise
\* sets the state and runs startMonitoringLoop, whose first check starts its fetch
startRealtimeMonitoring ==
    /\ variant = "fast"
    /\ Len(calls) < MaxCalls
    /\ calls' = Append(calls, "start")
    /\ IF isMonitoring
       THEN UNCHANGED <<tradeCallback, isMonitoring, botStartTime, lastTradeTimestamp, pollPc>>
       ELSE /\ \E c \in Chains : pollPc[c] = "off"
            /\ tradeCallback' = TRUE
            /\ isMonitoring' = TRUE
            /\ botStartTime' = NowSec(now)
            /\ lastTradeTimestamp' = NowSec(now)
            /\ pollPc' = [pollPc EXCEPT ![FreeChain] = "fetching"]
    /\ UNCHANGED <<newTrades, pollCycle, dispatched, store>>

\* stopRealtimeMonitoring()
stopRealtimeMonitoring ==
    /\ variant = "fast"
    /\ Len(calls) < MaxCalls
    /\ calls' = Append(calls, "stop")
    /\ isMonitoring' = FALSE
    /\ tradeCallback' = FALSE
    /\ UNCHANGED <<lastTradeTimestamp, botStartTime, pollPc, newTrades, pollCycle, dispatched, store>>

\* the timer set by setTimeout(checkForNewTrades, pollInterval) fires
PollTimer ==
    /\ \E c \in Chains :
          /\ pollPc[c] = "timer"
          /\ pollPc' = [pollPc EXCEPT ![c] = IF isMonitoring THEN "fetching" ELSE "off"]
    /\ UNCHANGED <<isMonitoring, lastTradeTimestamp, botStartTime, tradeCallback, newTrades, calls, pollCycle, dispatched, store>>

\* await fetchData(activity) throws: caught, the next check is scheduled
PollFetchFails ==
    /\ \E c \in Chains :
          /\ pollPc[c] = "fetching"
          /\ pollPc' = [pollPc EXCEPT ![c] = "timer"]
    /\ UNCHANGED <<isMonitoring, lastTradeTimestamp, botStartTime, tradeCallback, newTrades, calls, pollCycle, dispatched, store>>

\* what a poll cycle accepts: the fetched activities filtered and put in dispatch order
Accepted(t, watermark, startTime) ==
    {DispatchOrder(FilterNew(fetched, watermark, startTime)) : fetched \in ActivityBatches(t)}

\* await fetchData(activity) returns: filter, sort, and start saving
PollFetched ==
    /\ \E c \in Chains :
          /\ pollPc[c] = "fetching"
          /\ \E accepted \in Accepted(now, lastTradeTimestamp, botStartTime) :
                /\ newTrades' = [newTrades EXCEPT ![c] = accepted]
                /\ pollPc' = [pollPc EXCEPT ![c] = IF accepted = <<>> THEN "timer" ELSE "saving"]
                /\ pollCycle' = IF accepted = <<>> THEN pollCycle ELSE pollCycle + 1
    /\ UNCHANGED <<isMonitoring, lastTradeTimestamp, botStartTime, tradeCallback, calls, dispatched, store>>

\* saveTradeToDb(trade): the store after it; saved tells whether newActivity.save() succeeded
saveTradeToDb(trade, saved) ==
    IF Exists(trade.transactionHash) \/ ~saved THEN store
    ELSE Append(store, Document(trade, FALSE, pollCycle))

\* await saveTradeToDb(trade) returns; the callback is called and the watermark set
PollSaved ==
    /\ \E c \in Chains :
          /\ pollPc[c] = "saving"
          /\ LET trade == newTrades[c][1]
             IN /\ \E saved \in BOOLEAN : store' = saveTradeToDb(trade, saved)
                /\ dispatched' = IF tradeCallback
                                 THEN Append(dispatched, [batch |-> pollCycle, transactionHash |-> trade.transactionHash,
                                                          timestamp |-> trade.timestamp])
                                 ELSE dispatched
                /\ lastTradeTimestamp' = trade.timestamp
          /\ newTrades' = [newTrades EXCEPT ![c] = Tail(newTrades[c])]
          /\ pollPc' = [pollPc EXCEPT ![c] = IF Len(newTrades[c]) = 1 THEN "timer" ELSE "saving"]
    /\ UNCHANGED <<isMonitoring, botStartTime, tradeCallback, calls, pollCycle>>

----------------------------------------------------------------------------
(* tradeMonitor: init and the loop of fetchTradeData *)

\* ENV.TOO_OLD_TIMESTAMP, in minutes
TOO_OLD_TIMESTAMP == 2

\* ENV.FETCH_INTERVAL, in seconds
FETCH_INTERVAL == 60

\* UserActivity.findOne().sort({timestamp: -1}): the timestamp of the latest document
RECURSIVE LatestTimestamp(_)
LatestTimestamp(docs) ==
    IF docs = <<>> THEN 0 ELSE Max(docs[1].timestamp, LatestTimestamp(Tail(docs)))

\* init(): the watermark it leaves; found tells whether findOne returned a document
init(found) ==
    IF found /\ store # <<>> /\ LatestTimestamp(store) # 0
    THEN LatestTimestamp(store) * 1000
    ELSE lastFetchedTimestamp

\* scheduleNextDayReset(): the time of the timer it sets, the next local midnight
scheduleNextDayReset(t) == StartOfDay(DateNow(t)) + 86400000

\* tradeMonitor(): await init(), the daily reset is scheduled, then the loop starts fetching
tradeMonitor ==
    /\ variant = "slow"
    /\ slowPc = "off"
    /\ \E found \in BOOLEAN : lastFetchedTimestamp' = init(found)
    /\ isFirstRun' = TRUE
    /\ slowPc' = "fetch"
    /\ resetDueAt' = scheduleNextDayReset(now)
    /\ startedAt' = NowSec(now)
    /\ UNCHANGED <<variant, cycle, myPositions, activities, tooOldThreshold, sleptAt, store>>

\* no cycle of fetchTradeData is between its fetch and its end
NoCycle == [batch |-> <<>>, watermark |-> 0, stored |-> {}]

\* fetchUserActivities returns (an empty list when the query throws); processNewTrades begins
SlowFetched ==
    /\ slowPc = "fetch"
    /\ \E batch \in ActivityBatches(now) :
          /\ activities' = batch
          /\ cycle' = [batch |-> batch, watermark |-> lastFetchedTimestamp,
                        stored |-> {store[id].transactionHash : id \in DOMAIN store}]
          /\ slowPc' = IF batch = <<>> THEN "positions" ELSE "process"
    /\ tooOldThreshold' = DateNow(now) - TOO_OLD_TIMESTAMP * 60 * 1000
    /\ UNCHANGED <<variant, resetDueAt, startedAt, myPositions, lastFetchedTimestamp, isFirstRun, sleptAt, store>>

\* processNewTrades skips the activity
Skipped(activity) ==
    \/ activity.type # "TRADE"
    \/ activity.timestamp * 1000 < tooOldThreshold
    \/ activity.timestamp * 1000 <= lastFetchedTimestamp
    \/ ~isFirstRun /\ Exists(activity.transactionHash)

\* saveActivityToDB(activity, alreadyProcessed) when newActivity.save() succeeds
saveActivityToDB(activity, alreadyProcessed) ==
    /\ store' = Append(store, Document(activity, alreadyProcessed, 0))
    /\ lastFetchedTimestamp' = IF activity.timestamp * 1000 > lastFetchedTimestamp
                               THEN activity.timestamp * 1000
                               ELSE lastFetchedTimestamp

\* one iteration of the loop of processNewTrades
SlowProcess ==
    /\ slowPc = "process"
    /\ LET activity == activities[1]
       IN \/ /\ ~Skipped(activity)
             /\ saveActivityToDB(activity, isFirstRun)
          \/ /\ UNCHANGED <<store, lastFetchedTimestamp>>
    /\ activities' = Tail(activities)
    /\ slowPc' = IF Len(activities) = 1 THEN "positions" ELSE "process"
    /\ UNCHANGED <<variant, resetDueAt, startedAt, cycle, myPositions, isFirstRun, tooOldThreshold, sleptAt>>

\* checkStopLoss(position), percentPnl in percent
checkStopLoss(cfg, position) ==
    position.percentPnl # 0 /\ position.percentPnl <= - cfg.stopLossPercent

\* checkTakeProfit(position)
checkTakeProfit(cfg, position) ==
    position.percentPnl # 0 /\ position.percentPnl >= cfg.takeProfitPercent

\* the position lists the positions query of the executing account can return
\* (the empty list also stands for a query that throws)
OwnPositions ==
    {<<>>,
     <<[conditionId |-> "0xc1", percentPnl |-> 0, currentValue |-> 50000, curPrice |-> 500]>>,
     <<[conditionId |-> "0xc1", percentPnl |-> -50, currentValue |-> 50000, curPrice |-> 250]>>,
     <<[conditionId |-> "0xc1", percentPnl |-> 35, currentValue |-> 50000, curPrice |-> 700]>>,
     <<[conditionId |-> "0xc1", percentPnl |-> -50, currentValue |-> 50000, curPrice |-> 250],
       [conditionId |-> "0xc2", percentPnl |-> -45, currentValue |-> 30000, curPrice |-> 300]>>}

\* the milliseconds that can pass between two iterations of the loop over the positions
SaveLatencies == {0, 1}

\* new UserActivity({...}) of checkOwnPositionsForRisk, Date.now() being ms
SellActivity(action, position, ms) ==
    [transactionHash |-> <<action, ms>>, type |-> "TRADE", timestamp |-> ms,
     conditionId |-> position.conditionId,
     side |-> "SELL", usdcSize |-> position.currentValue, price |-> position.curPrice,
     title |-> NoTimeTitle, bot |-> FALSE, botExcutedTime |-> 0, batch |-> 0]

\* the documents checkOwnPositionsForRisk would save for the positions, in order,
\* the loop starting at ms and each save taking latency milliseconds
RECURSIVE SellActivities(_, _, _, _)
SellActivities(cfg, positions, ms, latency) ==
    IF positions = <<>> THEN <<>>
    ELSE LET position == positions[1]
             shouldStopLoss == checkStopLoss(cfg, position)
             shouldTakeProfit == checkTakeProfit(cfg, position)
         IN IF shouldStopLoss \/ shouldTakeProfit
            THEN <<SellActivity(IF shouldStopLoss THEN "STOP_LOSS" ELSE "TAKE_PROFIT", position, ms)>>
                 \o SellActivities(cfg, Tail(positions), ms + latency, latency)
            ELSE SellActivities(cfg, Tail(positions), ms, latency)

\* the document is one checkOwnPositionsForRisk saved
IsSell(doc) == Len(doc.transactionHash) = 2

\* the positions are updated, the own positions checked (a save that throws ends
\* the loop over the positions), and the first run ends
SlowPositions ==
    /\ slowPc = "positions"
    /\ \E latency \in SaveLatencies :
          LET sells == SellActivities(config, myPositions, DateNow(now), latency)
          IN /\ Len(SelectSeq(store, IsSell)) + Len(sells) <= MaxSells
             /\ \E saved \in 0..Len(sells) : store' = store \o SubSeq(sells, 1, saved)
    /\ isFirstRun' = FALSE
    /\ slowPc' = "sleep"
    /\ sleptAt' = DateNow(now)
    /\ cycle' = NoCycle
    /\ UNCHANGED <<variant, resetDueAt, startedAt, myPositions, lastFetchedTimestamp, activities, tooOldThreshold>>

\* the market moves between two scans: the positions query returns another list
PositionsMove ==
    /\ slowPc = "sleep"
    /\ myPositions' \in OwnPositions \ {myPositions}
    /\ UNCHANGED <<variant, resetDueAt, startedAt, cycle, lastFetchedTimestamp, isFirstRun, slowPc, activities, tooOldThreshold, sleptAt, store>>

\* resetDailyStats(): the daily statistics are zeroed
resetDailyStats(stats) == [stats EXCEPT !.dailyPnL = 0]

\* the timer of scheduleNextDayReset fires: resetDailyStats(), then the next reset is scheduled
DailyReset ==
    /\ resetDueAt # 0
    /\ DateNow(now) >= resetDueAt
    /\ tradeStats' = resetDailyStats(tradeStats)
    /\ resetDueAt' = scheduleNextDayReset(now)
    /\ UNCHANGED <<variant, startedAt, cycle, lastFetchedTimestamp, isFirstRun, slowPc, activities, tooOldThreshold, sleptAt, myPositions, store>>

\* the sleep of FETCH_INTERVAL seconds ends
SlowTimer ==
    /\ slowPc = "sleep"
    /\ DateNow(now) - sleptAt >= FETCH_INTERVAL * 1000
    /\ slowPc' = "fetch"
    /\ UNCHANGED <<variant, resetDueAt, startedAt, cycle, myPositions, lastFetchedTimestamp, isFirstRun, activities, tooOldThreshold, sleptAt, store>>

----------------------------------------------------------------------------
(* tradeExecutor: readTempTrade and doTrading *)

\* a query that selects every trade
SelectedAny(doc) == doc.type = "TRADE"

\* UserActivity.find({type: 'TRADE', bot: false, botExcutedTime: {$lt: RETRY_LIMIT}})
Selected(doc) == doc.type = "TRADE" /\ ~doc.bot /\ doc.botExcutedTime < RETRY_LIMIT

\* the _ids find() returns, in the order of the collection
RECURSIVE FindIds(_)
FindIds(n) ==
    IF n = 0 THEN <<>>
    ELSE IF Selected(store[n]) THEN Append(FindIds(n - 1), n)
    ELSE FindIds(n - 1)

\* readTempTrade: temp_trades holds the documents as they are now
readTempTrade == [k \in DOMAIN FindIds(Len(store)) |->
                     [id |-> FindIds(Len(store))[k], doc |-> store[FindIds(Len(store))[k]]]]

\* the order book query: it throws, has no quote on the side, or quotes 0.5 or 0.999
BookOutcomes ==
    {[ok |-> FALSE, quoted |-> FALSE, price |-> 0], [ok |-> TRUE, quoted |-> FALSE, price |-> 0],
     [ok |-> TRUE, quoted |-> TRUE, price |-> 500], [ok |-> TRUE, quoted |-> TRUE, price |-> 999]}

\* a current price that is left at 0 when the book gives no quote
CurrentPriceOrZero(trade, book) == IF book.ok /\ book.quoted THEN book.price ELSE 0

\* let currentPrice = trade.price || 0, replaced by the best quote of the side
CurrentPrice(trade, book) == IF book.ok /\ book.quoted THEN book.price ELSE trade.price

\* getMyBalance(PROXY_WALLET) inside the risk check: throws or 10 USDC
ExecBalanceOutcomes == {QueryFailed, QueryOk(100000)}

\* the positions query inside the risk check: positions worth 0 USDC
ExecExposureOutcomes == {QueryOk(0)}

\* a positions query of doTrading finds a position in the trade's market, or none
PositionLookups == {"held", "none"}

\* canCopyTrade(trade, currentPrice): canCopy and adjustedAmount (riskCheck.adjustedAmount || amount);
\* riskAmount is the adjustedAmount of riskCheck (observation)
canCopyTrade(trade, currentPrice, cfg, stats, tts, t, bal, pos, bal2) ==
    LET side == IF trade.side = "BUY" THEN "BUY" ELSE "SELL"
        riskCheck == performFullRiskCheck(
                         [side |-> side, amount |-> trade.usdcSize, currentPrice |-> currentPrice,
                          originalPrice |-> trade.price, title |-> trade.title],
                         cfg, stats, tts, t, bal, pos, bal2)
    IN IF ~riskCheck.allowed
       THEN [canCopy |-> FALSE, adjustedAmount |-> 0, reason |-> riskCheck.reason, riskAmount |-> 0]
       ELSE [canCopy |-> TRUE,
             adjustedAmount |-> IF riskCheck.adjustedAmount # 0 THEN riskCheck.adjustedAmount ELSE trade.usdcSize,
             reason |-> "none", riskAmount |-> riskCheck.adjustedAmount]

\* a determineTradeCondition with the two positions exchanged
determineTradeConditionSwapped(trade, my_position, user_position) ==
    IF trade.type = "TRADE" /\ my_position = "none" /\ user_position = "held" THEN "merge"
    ELSE IF trade.side = "BUY" THEN "buy" ELSE "sell"

\* determineTradeCondition(trade, my_position, user_position)
determineTradeCondition(trade, my_position, user_position) ==
    IF trade.type = "TRADE" /\ user_position = "none" /\ my_position = "held" THEN "merge"
    ELSE IF trade.side = "BUY" THEN "buy" ELSE "sell"

NoBook == [ok |-> FALSE, quoted |-> FALSE, price |-> 0]

NoCheck == [canCopy |-> FALSE, adjustedAmount |-> 0, reason |-> "none", riskAmount |-> 0, condition |-> "none",
            book |-> NoBook, currentPrice |-> 0, my_position |-> "none", user_position |-> "none"]

\* the trade doTrading is at
Current == temp_trades[execIdx]

\* an update that writes the retry counter and leaves the event unprocessed
MarkRetryOnly(id, n) == [store EXCEPT ![id].botExcutedTime = n]

\* UserActivity.updateOne({_id}, {bot: true, botExcutedTime: n})
MarkProcessed(id, n) == [store EXCEPT ![id].bot = TRUE, ![id].botExcutedTime = n]

\* the for loop goes on to the next trade, or doTrading returns and the loop sleeps
NextTrade ==
    /\ execIdx' = IF execIdx < Len(temp_trades) THEN execIdx + 1 ELSE 1
    /\ execPc' = IF execIdx < Len(temp_trades) THEN "loop" ELSE "read"
    /\ temp_trades' = IF execIdx < Len(temp_trades) THEN temp_trades ELSE <<>>
    /\ copyCheck' = NoCheck
    /\ caught' = "none"

\* await readTempTrade(), then doTrading when there are trades;
\* main calls tradeExecutor after startRealtimeMonitoring has returned
ExecRead ==
    /\ tradeCallback
    /\ execPc = "read"
    /\ readTempTrade # <<>>
    /\ temp_trades' = readTempTrade
    /\ execIdx' = 1
    /\ execPc' = "loop"
    /\ UNCHANGED <<copyCheck, evals, rejections, orders, throws, caught, store, managerVars>>

\* a positions query of doTrading throws
ExecFetchThrows ==
    /\ Len(throws) < MaxFaults
    /\ execPc = "loop"
    /\ execPc' = "catch"
    /\ throws' = Append(throws, Current.id)
    /\ caught' = "positions"
    /\ UNCHANGED <<temp_trades, execIdx, copyCheck, evals, rejections, orders, store, managerVars>>

\* the outcomes of canCopyTrade for a trade, over the outcomes of the queries it makes
CopyChecks(trade, currentPrice, cfg, stats, tts, t) ==
    {canCopyTrade(trade, currentPrice, cfg, stats, tts, t, bal, pos, bal2) :
        bal \in ExecBalanceOutcomes, pos \in ExecExposureOutcomes, bal2 \in ExecBalanceOutcomes}

\* the positions, the order book and canCopyTrade
ExecEvaluate ==
    /\ execPc = "loop"
    /\ \E book \in BookOutcomes, my_position \in PositionLookups, user_position \in PositionLookups :
          \E check \in CopyChecks(Current.doc, CurrentPrice(Current.doc, book), config,
                                  tradeStats, tradeTimestamps, now) :
          /\ copyCheck' = [canCopy |-> check.canCopy, adjustedAmount |-> check.adjustedAmount,
                           reason |-> check.reason, riskAmount |-> check.riskAmount,
                           condition |-> IF check.canCopy
                                         THEN determineTradeCondition(Current.doc, my_position, user_position)
                                         ELSE "none",
                           book |-> book, currentPrice |-> CurrentPrice(Current.doc, book),
                           my_position |-> IF check.canCopy THEN my_position ELSE "none",
                           user_position |-> IF check.canCopy THEN user_position ELSE "none"]
          /\ execPc' = IF check.canCopy THEN "place" ELSE "skip"
    /\ evals' = Append(evals, Current.id)
    /\ rejections' = IF execPc' = "skip"
                     THEN rejections \cup {[eval |-> Len(evals) + 1,
                                            placed |-> Cardinality({k \in DOMAIN orders : orders[k].id = Current.id})]}
                     ELSE rejections
    /\ UNCHANGED <<temp_trades, execIdx, orders, throws, caught, store, managerVars>>

\* the trade is skipped: updateOne({bot: true, botExcutedTime: RETRY_LIMIT})
ExecSkip ==
    /\ execPc = "skip"
    /\ store' = MarkProcessed(Current.id, RETRY_LIMIT)
    /\ NextTrade
    /\ UNCHANGED <<evals, rejections, orders, throws, managerVars>>

\* getMyBalance(PROXY_WALLET) or getMyBalance(USER_ADDRESS) throws
ExecBalanceThrows ==
    /\ Len(throws) < MaxFaults
    /\ execPc = "place"
    /\ execPc' = "catch"
    /\ throws' = Append(throws, Current.id)
    /\ caught' = "balance"
    /\ UNCHANGED <<temp_trades, execIdx, copyCheck, evals, rejections, orders, store, managerVars>>

\* postOrder throws
ExecPlaceThrows ==
    /\ Len(throws) < MaxFaults
    /\ execPc = "place"
    /\ execPc' = "catch"
    /\ throws' = Append(throws, Current.id)
    /\ caught' = "postOrder"
    /\ UNCHANGED <<temp_trades, execIdx, copyCheck, evals, rejections, orders, store, managerVars>>

\* postOrder completes; riskManager.recordTrade()
ExecPlace ==
    /\ execPc = "place"
    /\ orders' = Append(orders, [id |-> Current.id, usdcSize |-> copyCheck.adjustedAmount])
    /\ tradeStats' = recordTradeStats(tradeStats, 0, now)
    /\ tradeTimestamps' = recordTradeTimestamps(tradeTimestamps, now)
    /\ execPc' = "mark"
    /\ UNCHANGED <<temp_trades, execIdx, copyCheck, evals, rejections, throws, caught, store, config>>

\* the trade is marked: updateOne({bot: true, botExcutedTime: RETRY_LIMIT})
ExecMark ==
    /\ execPc = "mark"
    /\ store' = MarkProcessed(Current.id, RETRY_LIMIT)
    /\ NextTrade
    /\ UNCHANGED <<evals, rejections, orders, throws, managerVars>>

\* an updateOne of the try block throws
ExecUpdateThrows ==
    /\ Len(throws) < MaxFaults
    /\ execPc \in {"skip", "mark"}
    /\ execPc' = "catch"
    /\ throws' = Append(throws, Current.id)
    /\ caught' = "updateOne"
    /\ UNCHANGED <<temp_trades, execIdx, copyCheck, evals, rejections, orders, store, managerVars>>

\* the catch block: the retry counter of the document as read, plus one
ExecCatch ==
    /\ execPc = "catch"
    /\ LET currentRetry == Current.doc.botExcutedTime + 1
       IN store' = IF currentRetry >= RETRY_LIMIT
                   THEN MarkProcessed(Current.id, currentRetry)
                   ELSE [store EXCEPT ![Current.id].botExcutedTime = currentRetry]
    /\ NextTrade
    /\ UNCHANGED <<evals, rejections, orders, throws, managerVars>>

\* the updateOne of the catch block throws: doTrading and tradeExecutor reject
ExecCatchThrows ==
    /\ execPc = "catch"
    /\ execPc' = "dead"
    /\ UNCHANGED <<temp_trades, execIdx, copyCheck, evals, rejections, orders, throws, caught, store, managerVars>>

\* the clock advances
Tick ==
    /\ now < MaxTime
    /\ now' = now + 1

\* the clock advances to the next local midnight
Midnight ==
    /\ NowSec(now) \div 86400 < MaxDays
    /\ now' = ((NowSec(now) \div 86400 + 1) * 86400 - NowSec(0)) \div 60

----------------------------------------------------------------------------
(* The specifications *)

RiskIdle ==
    /\ riskPc = "idle"
    /\ riskIdx = 1
    /\ riskIn = NoInput
    /\ riskRan = <<>>
    /\ riskQueries = <<>>
    /\ riskResult = NoResult
    /\ riskPass = 1
    /\ riskFirst = [result |-> NoResult, queries |-> <<>>]
    /\ riskConfig = config

\* the pipeline before main has started it
PipelineIdle ==
    /\ isMonitoring = FALSE
    /\ lastTradeTimestamp = 0
    /\ botStartTime = 0
    /\ tradeCallback = FALSE
    /\ pollPc = [c \in Chains |-> "off"]
    /\ newTrades = [c \in Chains |-> <<>>]
    /\ calls = <<>>
    /\ pollCycle = 0
    /\ dispatched = <<>>
    /\ temp_trades = <<>>
    /\ execPc = "read"
    /\ execIdx = 1
    /\ copyCheck = NoCheck
    /\ evals = <<>>
    /\ orders = <<>>
    /\ throws = <<>>
    /\ caught = "none"
    /\ rejections = {}
    /\ lastFetchedTimestamp = 0
    /\ isFirstRun = TRUE
    /\ slowPc = "off"
    /\ activities = <<>>
    /\ tooOldThreshold = 0
    /\ sleptAt = 0
    /\ resetDueAt = 0
    /\ cycle = NoCycle
    /\ startedAt = 0
    /\ timeIn = NoTimeInput
    /\ timeOut = NoTimeOutput

InitRisk ==
    /\ now \in 0..MaxTime
    /\ config \in RiskConfigs
    /\ \E s \in RiskStats(now) : tradeStats = s.stats /\ tradeTimestamps = s.tts
    /\ RiskIdle
    /\ store = <<>>
    /\ variant = "fast"
    /\ PipelineIdle
    /\ myPositions = <<[conditionId |-> "0xc1", percentPnl |-> -50, currentValue |-> 50000, curPrice |-> 250]>>

vars == <<now, managerVars, riskVars, store, monitorVars, slowVars, executorVars, timeVars>>

\* the process at the start of main: the modules are loaded, the store is what an earlier run left
Init ==
    /\ now = 0
    /\ config = DEFAULT_RISK_CONFIG
    /\ tradeStats = [dailyPnL |-> 0, lastTradeTime |-> 0]
    /\ tradeTimestamps = <<>>
    /\ RiskIdle
    /\ store \in InitialStores
    /\ variant = "fast"
    /\ PipelineIdle
    /\ myPositions = <<[conditionId |-> "0xc1", percentPnl |-> -50, currentValue |-> 50000, curPrice |-> 250]>>

\* main starts the monitor: its one call of startRealtimeMonitoring
Main ==
    /\ calls = <<>>
    /\ startRealtimeMonitoring
    /\ UNCHANGED <<timeVars, now, managerVars, riskVars, slowVars, executorVars>>

Next ==
    \/ Tick /\ UNCHANGED <<timeVars, managerVars, riskVars, store, monitorVars, slowVars, executorVars>>
    \/ Main
    \/ PollTimer /\ UNCHANGED <<timeVars, now, managerVars, riskVars, slowVars, executorVars>>
    \/ PollFetchFails /\ UNCHANGED <<timeVars, now, managerVars, riskVars, slowVars, executorVars>>
    \/ PollFetched /\ UNCHANGED <<timeVars, now, managerVars, riskVars, slowVars, executorVars>>
    \/ PollSaved /\ UNCHANGED <<timeVars, now, managerVars, riskVars, slowVars, executorVars>>
    \/ ExecRead /\ UNCHANGED <<timeVars, now, riskVars, monitorVars, slowVars>>
    \/ ExecFetchThrows /\ UNCHANGED <<timeVars, now, riskVars, monitorVars, slowVars>>
    \/ ExecEvaluate /\ UNCHANGED <<timeVars, now, riskVars, monitorVars, slowVars>>
    \/ ExecSkip /\ UNCHANGED <<timeVars, now, riskVars, monitorVars, slowVars>>
    \/ ExecBalanceThrows /\ UNCHANGED <<timeVars, now, riskVars, monitorVars, slowVars>>
    \/ ExecPlaceThrows /\ UNCHANGED <<timeVars, now, riskVars, monitorVars, slowVars>>
    \/ ExecPlace /\ UNCHANGED <<timeVars, now, riskVars, monitorVars, slowVars>>
    \/ ExecMark /\ UNCHANGED <<timeVars, now, riskVars, monitorVars, slowVars>>
    \/ ExecUpdateThrows /\ UNCHANGED <<timeVars, now, riskVars, monitorVars, slowVars>>
    \/ ExecCatch /\ UNCHANGED <<timeVars, now, riskVars, monitorVars, slowVars>>
    \/ ExecCatchThrows /\ UNCHANGED <<timeVars, now, riskVars, monitorVars, slowVars>>

Spec == Init /\ [][Next]_vars

\* a step of the executor loop
Executor ==
    /\ \/ ExecRead \/ ExecFetchThrows \/ ExecEvaluate \/ ExecSkip \/ ExecBalanceThrows \/ ExecPlaceThrows
       \/ ExecPlace \/ ExecMark \/ ExecUpdateThrows \/ ExecCatch \/ ExecCatchThrows
    /\ UNCHANGED <<timeVars, now, riskVars, monitorVars, slowVars>>

\* the pipeline when main runs on and the executor loop keeps being scheduled
SpecLive == Init /\ [][Next]_vars /\ WF_vars(Main) /\ WF_vars(Executor)

\* configurations whose hourly and daily limits one order reaches
FrequencyConfigs ==
    {updateConfig(DEFAULT_RISK_CONFIG, [maxTradesPerHour |-> 1]),
     updateConfig(DEFAULT_RISK_CONFIG, [maxTradesPerDay |-> 1])}

\* the process of main after updateConfig lowered a limit, with an event an earlier run left
InitFrequency ==
    /\ now = 0
    /\ config \in FrequencyConfigs
    /\ tradeStats = [dailyPnL |-> 0, lastTradeTime |-> 0]
    /\ tradeTimestamps = <<>>
    /\ RiskIdle
    /\ store \in InitialStores \ {<<>>}
    /\ variant = "fast"
    /\ PipelineIdle
    /\ myPositions = <<[conditionId |-> "0xc1", percentPnl |-> -50, currentValue |-> 50000, curPrice |-> 250]>>

SpecFrequency == InitFrequency /\ [][Next]_vars

\* a process whose tasks call startRealtimeMonitoring and stopRealtimeMonitoring, and the clock
NextLifecycle ==
    \/ Tick /\ UNCHANGED <<timeVars, managerVars, riskVars, store, monitorVars, slowVars, executorVars>>
    \/ startRealtimeMonitoring /\ UNCHANGED <<timeVars, now, managerVars, riskVars, slowVars, executorVars>>
    \/ stopRealtimeMonitoring /\ UNCHANGED <<timeVars, now, managerVars, riskVars, slowVars, executorVars>>
    \/ PollTimer /\ UNCHANGED <<timeVars, now, managerVars, riskVars, slowVars, executorVars>>
    \/ PollFetchFails /\ UNCHANGED <<timeVars, now, managerVars, riskVars, slowVars, executorVars>>
    \/ PollFetched /\ UNCHANGED <<timeVars, now, managerVars, riskVars, slowVars, executorVars>>
    \/ PollSaved /\ UNCHANGED <<timeVars, now, managerVars, riskVars, slowVars, executorVars>>

SpecLifecycle == Init /\ [][NextLifecycle]_vars

\* a configuration with a minimum trade amount of 0.001 USDC
AmountConfigs == {updateConfig(DEFAULT_RISK_CONFIG, [minTradeAmountUSDC |-> 10])}

\* the stores an earlier run left: one unprocessed trade of 0.004, 0.5 or 8 USDC
AmountStores ==
    {<<[transactionHash |-> <<"0xold">>, type |-> "TRADE", timestamp |-> NowSec(0) - 60, side |-> side,
        usdcSize |-> usdcSize, price |-> 500, title |-> NoTimeTitle,
        bot |-> FALSE, botExcutedTime |-> 0, batch |-> 0]>> :
        side \in {"BUY", "SELL"}, usdcSize \in {40, 5000, 80000}}

\* the process of main after updateConfig lowered the minimum, with an event an earlier run left
InitAmount ==
    /\ now = 0
    /\ config \in AmountConfigs
    /\ tradeStats = [dailyPnL |-> 0, lastTradeTime |-> 0]
    /\ tradeTimestamps = <<>>
    /\ RiskIdle
    /\ store \in AmountStores
    /\ variant = "fast"
    /\ PipelineIdle
    /\ myPositions = <<[conditionId |-> "0xc1", percentPnl |-> -50, currentValue |-> 50000, curPrice |-> 250]>>

\* main and the executor while the activity query returns nothing new, and the clock
NextAmount ==
    \/ Tick /\ UNCHANGED <<timeVars, managerVars, riskVars, store, monitorVars, slowVars, executorVars>>
    \/ Main
    \/ Executor

SpecAmount == InitAmount /\ [][NextAmount]_vars

\* the realtime monitor as main starts it, and the clock
NextPoll ==
    \/ Tick /\ UNCHANGED <<timeVars, managerVars, riskVars, store, monitorVars, slowVars, executorVars>>
    \/ Main
    \/ PollTimer /\ UNCHANGED <<timeVars, now, managerVars, riskVars, slowVars, executorVars>>
    \/ PollFetchFails /\ UNCHANGED <<timeVars, now, managerVars, riskVars, slowVars, executorVars>>
    \/ PollFetched /\ UNCHANGED <<timeVars, now, managerVars, riskVars, slowVars, executorVars>>
    \/ PollSaved /\ UNCHANGED <<timeVars, now, managerVars, riskVars, slowVars, executorVars>>

\* a step of checkForNewTrades after its fetch or a save returned, or when its timer fires
PollStep ==
    /\ PollTimer \/ PollFetchFails \/ PollFetched \/ PollSaved
    /\ UNCHANGED <<timeVars, now, managerVars, riskVars, slowVars, executorVars>>

\* a fetch whose batch holds every activity that exists and passes the filter
FullPoll ==
    /\ PollFetched
    /\ \E c \in Chains :
          /\ pollPc[c] = "fetching"
          /\ pollPc'[c] # "fetching"
          /\ \A a \in Visible(now) :
                IsNewTrade(a, lastTradeTimestamp, botStartTime) => \E i \in DOMAIN newTrades'[c] : newTrades'[c][i] = a
    /\ UNCHANGED <<timeVars, now, managerVars, riskVars, slowVars, executorVars>>

\* the realtime monitor when main runs on, timers fire, awaited calls return, and the activity
\* query keeps returning every activity that exists
SpecPoll == Init /\ [][NextPoll]_vars /\ WF_vars(Main) /\ WF_vars(PollStep) /\ SF_vars(FullPoll)

\* the store of an interval monitor that saved a stop-loss sell at the epoch millisecond
\* 2000000, which the executor then processed, before the process was restarted
RestartStore ==
    <<[SellActivity("STOP_LOSS",
                    [conditionId |-> "0xc2", percentPnl |-> -45, currentValue |-> 30000, curPrice |-> 300],
                    2000000)
          EXCEPT !.bot = TRUE, !.botExcutedTime = RETRY_LIMIT]>>

\* a process that runs one of the two monitors, and the clock
InitMonitors ==
    /\ now = 0
    /\ config = DEFAULT_RISK_CONFIG
    /\ tradeStats = [dailyPnL |-> 0, lastTradeTime |-> 0]
    /\ tradeTimestamps = <<>>
    /\ RiskIdle
    /\ variant \in {"fast", "slow"}
    /\ store \in (IF variant = "slow" THEN InitialStores \cup {RestartStore} ELSE InitialStores)
    /\ PipelineIdle
    /\ myPositions \in OwnPositions

NextMonitors ==
    \/ Tick /\ UNCHANGED <<timeVars, managerVars, riskVars, store, monitorVars, slowVars, executorVars>>
    \/ Main
    \/ PollTimer /\ UNCHANGED <<timeVars, now, managerVars, riskVars, slowVars, executorVars>>
    \/ PollFetchFails /\ UNCHANGED <<timeVars, now, managerVars, riskVars, slowVars, executorVars>>
    \/ PollFetched /\ UNCHANGED <<timeVars, now, managerVars, riskVars, slowVars, executorVars>>
    \/ PollSaved /\ UNCHANGED <<timeVars, now, managerVars, riskVars, slowVars, executorVars>>
    \/ tradeMonitor /\ UNCHANGED <<timeVars, now, managerVars, riskVars, monitorVars, executorVars>>
    \/ SlowFetched /\ UNCHANGED <<timeVars, now, managerVars, riskVars, monitorVars, executorVars>>
    \/ SlowProcess /\ UNCHANGED <<timeVars, now, managerVars, riskVars, monitorVars, executorVars>>
    \/ SlowPositions /\ UNCHANGED <<timeVars, now, managerVars, riskVars, monitorVars, executorVars>>
    \/ SlowTimer /\ UNCHANGED <<timeVars, now, managerVars, riskVars, monitorVars, executorVars>>
    \/ PositionsMove /\ UNCHANGED <<timeVars, now, managerVars, riskVars, monitorVars, executorVars>>
    \/ DailyReset /\ UNCHANGED <<timeVars, now, config, tradeTimestamps, riskVars, monitorVars, executorVars>>
    \/ Midnight /\ UNCHANGED <<timeVars, managerVars, riskVars, store, monitorVars, slowVars, executorVars>>

SpecMonitors == InitMonitors /\ [][NextMonitors]_vars

NextRisk ==
    \/ RiskCall /\ UNCHANGED <<timeVars, now, managerVars, store, monitorVars, slowVars, executorVars>>
    \/ RiskCheckStep /\ UNCHANGED <<timeVars, now, managerVars, store, monitorVars, slowVars, executorVars>>
    \/ RiskAdjustStep /\ UNCHANGED <<timeVars, now, managerVars, store, monitorVars, slowVars, executorVars>>
    \/ RiskReapply /\ UNCHANGED <<timeVars, now, managerVars, store, monitorVars, slowVars, executorVars>>

SpecRisk == InitRisk /\ [][NextRisk]_vars

\* the evaluation, and another task that calls updateConfig
NextConfig ==
    \/ NextRisk
    \/ RiskUpdateConfig /\ UNCHANGED <<timeVars, now, store, monitorVars, slowVars, executorVars>>

SpecConfig == InitRisk /\ [][NextConfig]_vars

\* checkMarketTimeRemaining at the times of ClockTicks
InitClock ==
    /\ now \in ClockTicks
    /\ config = DEFAULT_RISK_CONFIG
    /\ tradeStats = [dailyPnL |-> 0, lastTradeTime |-> 0]
    /\ tradeTimestamps = <<>>
    /\ RiskIdle
    /\ store = <<>>
    /\ variant = "fast"
    /\ PipelineIdle
    /\ myPositions = <<[conditionId |-> "0xc1", percentPnl |-> -50, currentValue |-> 50000, curPrice |-> 250]>>

NextClock == TimeCheck /\ UNCHANGED <<now, managerVars, riskVars, store, monitorVars, slowVars, executorVars>>

SpecClock == InitClock /\ [][NextClock]_vars

----------------------------------------------------------------------------
(* Claims about the risk evaluation (SpecRisk) *)

\* the evaluation of the input (not of its adjustedAmount) has returned
RiskDone == riskPc = "done" /\ riskPass = 1

\* the outcomes of the queries of the given kind, in the order issued
QueriesOf(kind) == SelectSeq(riskQueries, LAMBDA e : e.kind = kind)

\* the order of the checks as the specification lists them
FixedOrder ==
    <<"checkMarketResolved", "checkMarketTimeRemaining", "checkMinTradeAmount",
      "checkMaxPositionSize", "checkDailyLossLimit", "checkTradeFrequency",
      "checkSlippage", "checkPriceDifference", "checkBalanceProtection",
      "checkTotalExposure">>

\* C4: a BUY that would push the total exposure above maxTotalExposureUSDC
\* while the headroom is at least minTradeAmountUSDC (and the balance does not
\* bind) is allowed with adjustedAmount equal to the headroom, so that the
\* exposure plus adjustedAmount stays within the ceiling.
C4_HeadroomReturned ==
    (/\ RiskDone
     /\ riskIn.side = "BUY"
     /\ Len(riskRan) = NumChecks
     /\ StableQueries(riskQueries)
     /\ Len(QueriesOf("balance")) > 0
     /\ Len(QueriesOf("positions")) > 0
     /\ LET balance == QueriesOf("balance")[1].outcome.value
            exposure == QueriesOf("positions")[1].outcome.value
        IN /\ exposure + riskIn.amount > config.maxTotalExposureUSDC
           /\ config.maxTotalExposureUSDC - exposure >= config.minTradeAmountUSDC
           /\ riskIn.amount <= balance - config.minBalanceToKeepUSDC
           /\ riskIn.amount * 100 <= balance * config.maxBalanceUsagePercent
           /\ riskIn.amount <= config.maxPositionSizeUSDC
           /\ config.copyRatioPercent = 100)
    => LET exposure == QueriesOf("positions")[1].outcome.value
       IN /\ riskResult.allowed
          /\ riskResult.adjustedAmount = config.maxTotalExposureUSDC - exposure
          /\ exposure + riskResult.adjustedAmount <= config.maxTotalExposureUSDC

\* C5: an evaluation that returns allowed returns an adjustedAmount that is at
\* most maxPositionSizeUSDC and, for BUY, at most the available balance (the
\* balance last returned by a balance query, less minBalanceToKeepUSDC),
\* whatever the balance queries of the evaluation returned.
C5_AdjustedWithinLimits ==
    (RiskDone /\ riskResult.allowed)
    => /\ riskResult.adjustedAmount <= config.maxPositionSizeUSDC
       /\ riskIn.side = "BUY" =>
            \A i \in DOMAIN riskQueries :
                (/\ riskQueries[i].kind = "balance"
                 /\ riskQueries[i].outcome.ok
                 /\ \A j \in DOMAIN riskQueries :
                        (j > i /\ riskQueries[j].kind = "balance") => ~riskQueries[j].outcome.ok)
                => riskResult.adjustedAmount <= riskQueries[i].outcome.value - config.minBalanceToKeepUSDC

\* C6: the full chain applied to the adjustedAmount of a passing evaluation,
\* with the balance and the positions unchanged, returns that amount again.
C6_AdjustIdempotent ==
    (riskPc = "done" /\ riskPass = 2)
    => /\ riskResult.allowed
       /\ riskResult.adjustedAmount = riskFirst.result.adjustedAmount

\* C7: the checks run in the fixed order; every check before the last one that
\* ran allowed the trade; a check that rejects ends the evaluation with its own
\* result, no later check runs and no query of a later check is issued.
C7_OrderedShortCircuit ==
    /\ Len(riskRan) <= Len(FixedOrder)
    /\ \A i \in DOMAIN riskRan : riskRan[i].check = FixedOrder[i]
    /\ \A i \in DOMAIN riskRan : i < Len(riskRan) => riskRan[i].allowed
    /\ \A i \in DOMAIN riskRan :
           ~riskRan[i].allowed => riskPc = "done" /\ riskResult = riskRan[i]
    /\ Len(QueriesOf("balance")) > 0 => Len(riskRan) >= 9
    /\ Len(QueriesOf("positions")) > 0 => Len(riskRan) >= 10
    /\ Len(QueriesOf("balance")) > 1 => riskResult.check = "adjustTradeAmount"

\* a BUY rejected by the slippage check: six checks passed before it, no query was issued
C7_Witness ==
    /\ riskPc = "done"
    /\ riskIn.side = "BUY"
    /\ Len(riskRan) = 7
    /\ ~riskResult.allowed
    /\ riskResult.reason = "slippage"
    /\ riskQueries = <<>>

----------------------------------------------------------------------------
(* Claims about the monitors (SpecMonitors) and the pipeline (Spec) *)

\* how often the _id occurs in a log of _ids
Count(log, id) == Cardinality({k \in DOMAIN log : log[k] = id})

\* how many orders were placed for the _id
Placed(id) == Cardinality({k \in DOMAIN orders : orders[k].id = id})

\* C1: for every event, the order placement completes successfully at most
\* once, also when a persistence update throws after the placement.
C1_AtMostOnePlacement == \A id \in DOMAIN store : Placed(id) <= 1

\* the document is processed, and so is every document with its transaction hash
Processed(docs, id) ==
    \E j \in DOMAIN docs : docs[j].transactionHash = docs[id].transactionHash /\ docs[j].bot

\* C2: once an event's processed flag is true it stays true, and no later step of
\* the executor evaluates or places an order for an event with that transaction hash.
C2_ProcessedIsTerminal ==
    [][/\ \A id \in DOMAIN store : store[id].bot => id \in DOMAIN store' /\ store'[id].bot
       /\ evals' # evals => ~Processed(store, evals'[Len(evals')])
       /\ orders' # orders => ~Processed(store, orders'[Len(orders')].id)]_vars

\* an event was processed, and the executor has evaluated another event in a later pass
C2_Witness ==
    \E id \in DOMAIN store, k \in DOMAIN evals :
        /\ store[id].bot
        /\ evals[k] = id
        /\ Len(evals) > k
        /\ \A m \in (k + 1)..Len(evals) : evals[m] # id
        /\ Len(orders) >= 2

\* C3: an event that throws on RETRY_LIMIT passes is marked processed on the last
\* failure without any order placed for it, and no event is attempted more than
\* RETRY_LIMIT times.
C3_RetryBound ==
    \A id \in DOMAIN store :
        /\ Count(throws, id) <= RETRY_LIMIT
        /\ Count(evals, id) <= RETRY_LIMIT
        /\ Count(throws, id) = RETRY_LIMIT =>
              /\ Placed(id) = 0
              /\ (execPc \in {"catch", "dead"} /\ Current.id = id) \/ store[id].bot

\* C8: the watermark of either monitor never decreases.
C8_WatermarkMonotone ==
    [][/\ lastTradeTimestamp' >= lastTradeTimestamp
       /\ lastFetchedTimestamp' >= lastFetchedTimestamp]_vars

\* the fast monitor has saved two trades of one batch and its watermark is at the later one
C8_Witness ==
    /\ variant = "fast"
    /\ Len(dispatched) = 2
    /\ dispatched[1].batch = dispatched[2].batch
    /\ dispatched[1].timestamp < dispatched[2].timestamp
    /\ lastTradeTimestamp = dispatched[2].timestamp
    /\ lastTradeTimestamp > botStartTime

\* C9: the fast monitor saves a trade as pending only if it is later than the
\* start time, and no trade at or before the start time is ever executed.
C9_NoHistoricalTrade ==
    tradeCallback =>
        /\ \A id \in DOMAIN store : store[id].batch > 0 => store[id].timestamp > botStartTime
        /\ \A k \in DOMAIN orders : store[orders[k].id].timestamp > botStartTime

\* C10: the trades of one batch are dispatched in ascending order of timestamp,
\* and the executor evaluates and places their orders in that order.
C10_BatchOrder ==
    /\ \A i, j \in DOMAIN dispatched :
          i < j /\ dispatched[i].batch = dispatched[j].batch
             => dispatched[i].timestamp <= dispatched[j].timestamp
    /\ \A i, j \in DOMAIN orders :
          i < j /\ store[orders[i].id].batch = store[orders[j].id].batch
             => store[orders[i].id].timestamp <= store[orders[j].id].timestamp

\* C11: the store never holds two events with the same key (the transaction
\* hash of a trade, the synthesized key of a stop-loss or take-profit sell).
C11_UniqueKeys ==
    \A i, j \in DOMAIN store : i # j => store[i].transactionHash # store[j].transactionHash

\* the event with the _id is in the store and not processed
Pending(id) == id \in DOMAIN store /\ ~store[id].bot

\* C12: every pending event is eventually processed (skipped, executed, or
\* abandoned at the retry ceiling), and no event is evaluated more than
\* RETRY_LIMIT times.
C12_EventuallyProcessed ==
    /\ \A id \in 1..Cardinality(Activities) : Pending(id) ~> (id \in DOMAIN store /\ store[id].bot)
    /\ [](\A id \in DOMAIN store : Count(evals, id) <= RETRY_LIMIT)

\* the outcome of the k-th query the evaluation has made
QueryAt(k) == IF k <= Len(riskQueries) THEN riskQueries[k].outcome ELSE QueryFailed

\* C13: updateConfig has no effect on an evaluation in progress: the result is
\* the one the configuration active at the call gives, with the same query outcomes.
C13_ConfigAtCall ==
    riskPc = "done" =>
        riskResult = performFullRiskCheck(riskIn, riskConfig, tradeStats, tradeTimestamps, now,
                                          QueryAt(1), QueryAt(2), QueryAt(3))

\* C14: for a BUY that passes all checks, adjustedAmount is the least of the
\* requested amount (after copy ratio and position ceiling), the balance less
\* minBalanceToKeepUSDC, and the balance times maxBalanceUsagePercent / 100,
\* the balance being the one the adjustment was given.
C14_BalanceClamp ==
    (/\ RiskDone
     /\ riskResult.allowed
     /\ riskIn.side = "BUY"
     /\ Len(QueriesOf("balance")) = 2
     /\ QueriesOf("balance")[2].outcome.ok)
    => LET balance == QueriesOf("balance")[2].outcome.value
           requested == Min((riskIn.amount * config.copyRatioPercent) \div 100, config.maxPositionSizeUSDC)
       IN riskResult.adjustedAmount =
             Min(requested, Min(balance - config.minBalanceToKeepUSDC,
                                (balance * config.maxBalanceUsagePercent) \div 100))

----------------------------------------------------------------------------
(* Claims about the market time check (SpecClock) *)

\* the hours Eastern time is behind UTC at the epoch second: 4 under daylight
\* saving time (2026-03-08 07:00 UTC to 2026-11-01 06:00 UTC), 5 otherwise
EasternOffset(sec) ==
    IF sec >= 20520 * 86400 + 7 * 3600 /\ sec < 20758 * 86400 + 6 * 3600 THEN 4 ELSE 5

\* the minute of the day the clocks show in Eastern time at the epoch second
EasternMinuteOfDay(sec) == ((sec \div 60) - 60 * EasternOffset(sec)) % 1440

\* the minute of the Eastern day at which the title's market ends
EndMinuteOfDay(title) ==
    ((title.endHour % 12) + (IF title.endAmPm = "PM" THEN 12 ELSE 0)) * 60 + title.endMin

\* C16: for a title that encodes an end time in ET, parseMarketEndTime returns
\* as minutesRemaining the minutes from the current Eastern time to that end
\* time (up to whole days), and checkMarketTimeRemaining allows exactly when
\* minutesRemaining is at least minMinutes, at every time of day and date.
C16_EasternMinutes ==
    (timeOut.called /\ timeIn.title.matches)
    => /\ timeOut.timeInfo.found
       /\ (timeOut.timeInfo.minutesRemaining
            - (EndMinuteOfDay(timeIn.title) - EasternMinuteOfDay(NowSec(now)))) % 1440 = 0
       /\ timeOut.result.allowed <=> 2 * timeOut.timeInfo.minutesRemaining >= timeIn.minHalfMinutes

\* in winter, 40 minutes before the end: 40 minutes remaining, allowed for a minimum of 10
C16_Witness ==
    /\ timeOut.called
    /\ now = TickAt(20463, 0, 20)
    /\ timeIn.title = TimeTitle(8, 0, "PM")
    /\ timeIn.minHalfMinutes = 20
    /\ timeOut.timeInfo.minutesRemaining = 40
    /\ timeOut.result.allowed

----------------------------------------------------------------------------
(* Claims about the executor's handling of failures (Spec) *)

\* C17: a balance query that fails while an event is processed is recovered
\* locally: the event is not rejected because of it, and it is not handled by
\* the catch block, where the retry counter is incremented.  (A failed order
\* book query leaves currentPrice at the price of the event, see CurrentPrice.)
C17_FetchFailureRecovered ==
    /\ copyCheck.reason # "balanceCheckFailed"
    /\ caught # "balance"

\* C18: an event the risk evaluation rejected is marked processed in the same
\* pass (by the step that follows the evaluation), no order is placed for it
\* from then on, it is never evaluated again, and its processing never reaches
\* the catch block, where retries are counted.
C18_RejectionIsFinal ==
    \A r \in rejections :
        LET id == evals[r.eval]
        IN /\ store[id].bot \/ (execPc = "skip" /\ Current.id = id)
           /\ Placed(id) = r.placed
           /\ \A j \in DOMAIN evals : j > r.eval => evals[j] # id
           /\ ~(execPc = "catch" /\ Current.id = id)

\* the catch block of doTrading ends: by completing its update or by throwing
CatchEnds == execPc = "catch" /\ execPc' # "catch"

\* C19: when the processing of an event throws, the retry counter of the
\* event increases by exactly one; when the new counter reaches RETRY_LIMIT
\* the event is marked processed, otherwise it stays pending, is selected by
\* the next read, and the executor goes on to reach that read.
C19_RetryCounted ==
    [][CatchEnds =>
         LET id == Current.id
         IN /\ store'[id].botExcutedTime = store[id].botExcutedTime + 1
            /\ store'[id].botExcutedTime >= RETRY_LIMIT => store'[id].bot
            /\ store'[id].botExcutedTime < RETRY_LIMIT =>
                  /\ ~store'[id].bot
                  /\ Selected(store'[id])
                  /\ execPc' # "dead"]_vars

\* C20: recordTrade runs exactly once for every order postOrder completed, in
\* the step of the placement and before the event is marked processed, and in
\* no other step: a pass that rejects an event, or throws before the placement
\* has completed, leaves tradeStats and tradeTimestamps as they were.
C20_RecordedOncePerOrder ==
    [][/\ orders' # orders =>
            /\ Len(orders') = Len(orders) + 1
            /\ Len(tradeTimestamps') = Len(tradeTimestamps) + 1
            /\ tradeTimestamps'[Len(tradeTimestamps')] = DateNow(now)
            /\ tradeStats'.lastTradeTime = DateNow(now)
            /\ store' = store
            /\ ~store[orders'[Len(orders')].id].bot
       /\ orders' = orders =>
            /\ tradeStats' = tradeStats
            /\ tradeTimestamps' = tradeTimestamps]_vars

\* in one pass an event was rejected and marked, the order of the next event
\* was placed and recorded, and that event is not yet marked processed
C20_Witness ==
    /\ execPc = "mark"
    /\ ~store[Current.id].bot
    /\ rejections # {}
    /\ \A r \in rejections : store[evals[r.eval]].bot /\ evals[r.eval] # Current.id
    /\ Len(orders) = 1
    /\ orders[1].id = Current.id
    /\ tradeTimestamps = <<DateNow(now)>>
    /\ tradeStats.lastTradeTime = DateNow(now)

----------------------------------------------------------------------------
(* Claims about the evaluation step of the executor (Spec) *)

\* the step in which doTrading fetches the book and awaits canCopyTrade
Evaluates == evals' # evals

\* C21: when the order book query fails, or has no quote on the side of the
\* event, the event is evaluated with its own price as the current price, the
\* risk decision is taken in that step, and neither the store (the retry
\* counter) nor the log of exceptions changes.
C21_BookFallback ==
    [][(Evaluates /\ ~(copyCheck'.book.ok /\ copyCheck'.book.quoted)) =>
         /\ copyCheck'.currentPrice = Current.doc.price
         /\ \E check \in CopyChecks(Current.doc, Current.doc.price, config, tradeStats, tradeTimestamps, now) :
                /\ copyCheck'.canCopy = check.canCopy
                /\ copyCheck'.adjustedAmount = check.adjustedAmount
                /\ copyCheck'.reason = check.reason
         /\ execPc' = (IF copyCheck'.canCopy THEN "place" ELSE "skip")
         /\ store' = store
         /\ throws' = throws
         /\ caught' = "none"]_vars

\* the book query threw, the event was evaluated at its own price of 0.5 and allowed
C21_Witness ==
    /\ execPc = "place"
    /\ ~copyCheck.book.ok
    /\ copyCheck.canCopy
    /\ copyCheck.currentPrice = 500
    /\ Current.doc.price = 500
    /\ store[Current.id].botExcutedTime = 0

\* C22: for an allowed event the condition is merge exactly when the target
\* account holds no position in the market of the event and the executor's own
\* account holds one; otherwise it is buy for a BUY event and sell for a SELL.
C22_MergeCondition ==
    copyCheck.canCopy =>
        /\ copyCheck.condition = "merge"
             <=> (copyCheck.user_position = "none" /\ copyCheck.my_position = "held")
        /\ copyCheck.condition # "merge" =>
             /\ Current.doc.side = "BUY" => copyCheck.condition = "buy"
             /\ Current.doc.side = "SELL" => copyCheck.condition = "sell"
             /\ Current.doc.side \in {"BUY", "SELL"}

\* an allowed BUY event whose market the target no longer holds and the own account does
C22_Witness ==
    /\ execPc = "place"
    /\ copyCheck.canCopy
    /\ Current.doc.side = "BUY"
    /\ copyCheck.user_position = "none"
    /\ copyCheck.my_position = "held"
    /\ copyCheck.condition = "merge"

----------------------------------------------------------------------------
(* Claims about the position watcher in the process main starts (SpecLive) *)

\* a position of the executing account is beyond its stop-loss or take-profit threshold
Triggered ==
    \E k \in DOMAIN myPositions :
        checkStopLoss(config, myPositions[k]) \/ checkTakeProfit(config, myPositions[k])

\* C23: when a stop-loss or take-profit threshold triggers for a position of
\* the executing account, a SELL event with a synthesized key is inserted as
\* pending, and the executor subsequently evaluates it and places its order.
C23_TriggeredSellExecuted ==
    Triggered ~> (\E id \in DOMAIN store :
                     /\ IsSell(store[id])
                     /\ store[id].side = "SELL"
                     /\ Count(evals, id) > 0
                     /\ Placed(id) > 0)

----------------------------------------------------------------------------
(* Further claims about the risk evaluation (SpecRisk) *)

\* C24: no evaluation returns allowed = true with an adjustedAmount below
\* minTradeAmountUSDC: when the amount left by the copy ratio, the position
\* size ceiling and the balance clamps is below the floor, the evaluation
\* returns allowed = false.
C24_FloorAfterAdjustment ==
    (riskPc = "done" /\ riskResult.allowed) => riskResult.adjustedAmount >= config.minTradeAmountUSDC

----------------------------------------------------------------------------
(* Further claims about the monitors (SpecMonitors) *)

\* C25: whenever a monitor advances its watermark to the timestamp of a
\* trade, that trade is in the store (saved by that step, or present before).
C25_WatermarkDurable ==
    [][/\ \A c \in Chains :
             (pollPc[c] = "saving" /\ newTrades'[c] # newTrades[c]) =>
                 /\ lastTradeTimestamp' = newTrades[c][1].timestamp
                 /\ \E id \in DOMAIN store' :
                        /\ store'[id].transactionHash = newTrades[c][1].transactionHash
                        /\ store'[id].timestamp = lastTradeTimestamp'
       /\ (slowPc = "process" /\ lastFetchedTimestamp' # lastFetchedTimestamp) =>
              \E id \in DOMAIN store' :
                  /\ store'[id].transactionHash = activities[1].transactionHash
                  /\ store'[id].timestamp * 1000 = lastFetchedTimestamp']_vars

\* C26: in the running process a daily reset of the rolling statistics is pending for the next local
\* midnight at all times: scheduled at startup and re-scheduled after each reset
C26_DailyResetScheduled ==
    tradeCallback => resetDueAt = scheduleNextDayReset(now)

\* the evaluation at this instant comes too soon after the last recorded trade, or the trades
\* recorded in the preceding hour or since local midnight have reached their limit
TooFrequent ==
    \/ /\ tradeTimestamps # <<>>
       /\ DateNow(now) - tradeTimestamps[Len(tradeTimestamps)] < config.minTimeBetweenTradesMs
    \/ Cardinality({i \in DOMAIN tradeTimestamps : tradeTimestamps[i] > DateNow(now) - 3600000})
          >= config.maxTradesPerHour
    \/ Cardinality({i \in DOMAIN tradeTimestamps : tradeTimestamps[i] > StartOfDay(DateNow(now))})
          >= config.maxTradesPerDay

\* C27: an event evaluated less than minTimeBetweenTradesMs after the last recorded trade, or while
\* the trades recorded in the preceding hour have reached maxTradesPerHour or those recorded since
\* local midnight maxTradesPerDay, is skipped: an order is placed only after an evaluation outside
\* these cases
C27_FrequencyLimits ==
    [][/\ (Evaluates /\ TooFrequent) => execPc' = "skip"
       /\ (execPc' = "place" /\ execPc # "place") => (Evaluates /\ ~TooFrequent)
       /\ orders' # orders => execPc = "place"]_vars

C27_Witness ==
    /\ execPc = "skip"
    /\ copyCheck.reason \in {"hourlyLimit", "dailyLimit"}
    /\ orders # <<>>

\* the naive difference end - now of parseMarketEndTime, in minutes of the day of the clock it reads
NaiveDifference == EndMinuteOfDay(timeIn.title) - ((NowSec(now) \div 60 - 5 * 60) % 1440)

C29_RetryBounds ==
    /\ \A id \in DOMAIN store :
          /\ store[id].botExcutedTime \in 0..RETRY_LIMIT
          /\ ~store[id].bot => store[id].botExcutedTime < RETRY_LIMIT
    /\ {id \in DOMAIN store : Selected(store[id])} = {id \in DOMAIN store : ~store[id].bot}

C29_Witness ==
    /\ \E id \in DOMAIN store : ~store[id].bot /\ Selected(store[id])
    /\ \E id \in DOMAIN store :
          store[id].bot /\ store[id].botExcutedTime = RETRY_LIMIT /\ Count(throws, id) = RETRY_LIMIT

----------------------------------------------------------------------------
(* The calls of startRealtimeMonitoring and stopRealtimeMonitoring (SpecLifecycle) *)

\* the chains of polls that are running, or wait for a timer at whose firing they run on
ActiveChains ==
    {c \in Chains : pollPc[c] \in {"fetching", "saving"} \/ (pollPc[c] = "timer" /\ isMonitoring)}

\* startRealtimeMonitoring is called while monitoring is active
StartsWhileActive == isMonitoring /\ calls' = Append(calls, "start")

\* C30: after every sequence of startRealtimeMonitoring and stopRealtimeMonitoring calls at most one
\* chain of polls is active, also when a start follows a stop before the timer of the old chain
\* has fired; a start call while monitoring is active changes neither the callback, the start time
\* nor the watermark
C30_OneChain ==
    [][/\ Cardinality(ActiveChains') <= 1
       /\ StartsWhileActive => UNCHANGED <<tradeCallback, botStartTime, lastTradeTimestamp>>]_vars

\* the last call was stopRealtimeMonitoring, and it has returned
Stopped == calls # <<>> /\ calls[Len(calls)] = "stop"

\* C31: once stopRealtimeMonitoring has returned, and until monitoring is started again, no trade
\* is inserted into the store, the watermark does not move and the callback is not invoked, also
\* when a poll cycle was suspended at its fetch or at a save when the stop was called
C31_StopIsFinal ==
    [][(Stopped /\ Stopped') =>
          /\ store' = store
          /\ lastTradeTimestamp' = lastTradeTimestamp
          /\ dispatched' = dispatched]_vars

----------------------------------------------------------------------------
(* The realtime monitor on its own (SpecPoll) *)

\* C32: in the fast variant every TRADE activity with a timestamp after the start time that the
\* activity query keeps returning is eventually recorded in the store, also when it shares its
\* timestamp with a recorded trade, first appears in a later poll, or its save attempt failed
C32_NoTradeMissed ==
    \A hash \in {<<"0xh0">>, <<"0xt1">>, <<"0xt2">>, <<"0xr1">>} :
        (isMonitoring /\ \E a \in Visible(now) :
                            a.transactionHash = hash /\ a.type = "TRADE" /\ a.timestamp > botStartTime)
            ~> Exists(hash)

----------------------------------------------------------------------------
(* The interval monitor (SpecMonitors), continued *)

\* the activity of the batch of this cycle is a trade newer than the watermark the cycle began
\* with, within the staleness cutoff, and was not stored when the cycle began
DueInCycle(a) ==
    /\ a.type = "TRADE"
    /\ a.timestamp * 1000 > cycle.watermark
    /\ a.timestamp * 1000 >= tooOldThreshold
    /\ a.transactionHash \notin cycle.stored

\* C33: in the slow variant, after the first cycle, when processNewTrades has gone through a batch,
\* every trade of the batch that was newer than the watermark at the start of the cycle, within the
\* staleness cutoff and not yet stored is in the store as pending, whatever the order of the batch
C33_BatchRecorded ==
    (variant = "slow" /\ slowPc = "positions" /\ ~isFirstRun)
    => \A i \in DOMAIN cycle.batch :
          DueInCycle(cycle.batch[i])
          => \E id \in DOMAIN store :
                store[id].transactionHash = cycle.batch[i].transactionHash /\ ~store[id].bot

\* processNewTrades saves a trade of the batch
SlowSaves == variant = "slow" /\ slowPc = "process" /\ store' # store

\* C34: in the slow variant a trade that happened before the process started is never inserted as
\* pending, and a trade saved in the first cycle is saved as processed, also when the first
\* activity fetch failed or returned an empty batch
C34_NoHistoricalPending ==
    [][SlowSaves =>
          LET saved == store'[Len(store')]
          IN /\ saved.timestamp < startedAt => saved.bot
             /\ isFirstRun => saved.bot]_vars

\* the unprocessed sell events in the store that checkOwnPositionsForRisk saved for the position
PendingSells(conditionId) ==
    {id \in DOMAIN store :
        IsSell(store[id]) /\ ~store[id].bot /\ store[id].conditionId = conditionId}

\* C35: for each open position the store holds at most one unprocessed synthesized
\* stop-loss/take-profit SELL event at any time, however many cycles find the threshold met
C35_OnePendingSell ==
    \A conditionId \in {"0xc1", "0xc2"} : Cardinality(PendingSells(conditionId)) <= 1

----------------------------------------------------------------------------
(* The amount of the order (SpecAmount) *)

\* C36: whenever the executor places an order, the USDC amount it passes to postOrder is the
\* adjustedAmount the risk evaluation of that pass returned, whatever its value, 0 included
C36_OrderAmount ==
    [][orders' # orders => orders'[Len(orders')].usdcSize = copyCheck.riskAmount]_vars

----------------------------------------------------------------------------
(* The watermarks and the clock (SpecMonitors) *)

\* C37: the watermark of a monitor never exceeds the current time in the watermark's own unit
\* (seconds for lastTradeTimestamp, milliseconds for lastFetchedTimestamp), also after a restart
\* that loads it from a store holding synthesized stop-loss/take-profit events
C37_WatermarkNotAhead ==
    /\ lastTradeTimestamp <= NowSec(now)
    /\ lastFetchedTimestamp <= DateNow(now)

----------------------------------------------------------------------------
(* The daily PnL of the running pipeline (Spec) *)

\* C38: the rolling daily PnL is 0 in every state of the running pipeline, since the executor's
\* recordTrade() books PnL 0 for every trade; so, with a positive maxDailyLossUSDC, the
\* daily-loss-limit check allows and no evaluation is rejected by it
C38_DailyPnLZero ==
    /\ tradeStats.dailyPnL = 0
    /\ config.maxDailyLossUSDC > 0 =>
          /\ checkDailyLossLimit(config, tradeStats).allowed
          /\ copyCheck.reason # "dailyLoss"

\* a trade has been recorded and a later evaluation has passed the checks
C38_Witness ==
    /\ tradeStats.lastTradeTime # 0
    /\ Len(orders) >= 1
    /\ execPc = "place"
    /\ tradeStats.dailyPnL = 0

=============================================================================
